---- MODULE Spec2Model ----
(***************************************************************************)
(* Model of the pixels example applications: the bouncing-box World       *)
(* (new / update / resize / draw) and the frame-cycle drivers of the five *)
(* example variants (minimal-winit, minimal-egui, imgui-winit,            *)
(* minimal-winit-android, tiny-skia-winit).                               *)
(***************************************************************************)
EXTENDS Integers, Sequences, FiniteSets, TLC

VARIABLES
    variant,            \* which example program runs
    state,              \* driver: "Uninitialized", "Running", "Exited"
    world,              \* the driver's World (toggle form, or imgui's two-flag form)
    canvas,             \* <<WIDTH, HEIGHT>> constants the toggle form is compiled with
    rworld,             \* a World of imgui-winit (stores width/height, two-flag update)
    ticks,              \* number of update() calls made so far (saturates at the bound)
    prev,               \* the toggle World before the last update()
    buf,                \* a frame buffer of the draw specification, as its 4-byte chunks
    surface,            \* << >>, or <<size>> the presentation surface was last told
    redraw_requested,   \* window.request_redraw() is outstanding
    frame,              \* << >>, or <<World state last rasterised into the frame>>
    log,                \* sequence of method names passed to log_error
    ready,              \* async variant: event waiting in each merged stream
    input,              \* tiny-skia variant: WinitInputHelper state of the current step
    hist                \* history of the driver: counters and the last handled event

vars == <<variant, state, world, canvas, rworld, ticks, prev, buf, surface,
          redraw_requested, frame, log, ready, input, hist>>

None == "None"

\* ------------------------------------------------------------------------
\* Program constants
\* ------------------------------------------------------------------------
BOX_SIZE == 64

WIDTH_minimal == 320
HEIGHT_minimal == 240
WIDTH_gui == 640
HEIGHT_gui == 480
WIDTH_skia == 500
HEIGHT_skia == 500

ColourA == <<94, 72, 232, 255>>      \* 0x5e, 0x48, 0xe8, 0xff
ColourB == <<72, 178, 232, 255>>     \* 0x48, 0xb2, 0xe8, 0xff

\* ------------------------------------------------------------------------
\* Bounds of the model
\* ------------------------------------------------------------------------
MaxTicks == 240
MaxResizeTicks == 6
MaxDrawTicks == 8
MaxDriverTicks == 3
MaxWideTicks == 32800
MaxScenarioTicks == 3

\* Canvases of the World specification: the three compiled-in sizes and
\* small ones around the place where the initial box (24,16)+64 meets the wall.
Canvases ==
    { <<WIDTH_minimal, HEIGHT_minimal>>, <<WIDTH_gui, HEIGHT_gui>>,
      <<65, 65>>, <<66, 70>>, <<86, 78>>, <<87, 79>>, <<88, 80>>, <<100, 90>> }

\* Canvases of the draw specification: one that shows the whole initial box,
\* and lower ones that the box overlaps at the bottom or on the right.
DrawCanvases == { <<90, 81>>, <<80, 18>>, <<70, 20>> }

\* Values a byte of the frame buffer may hold before draw() is called.
Fills == { 0, 255 }

\* Sizes a resize may report (PhysicalSize<u32>): around the box at (24,16),
\* the size of the resize scenario, and one that does not fit 16 bits.
ResizeSizes == { <<160, 120>>, <<87, 79>>, <<70, 70>>, <<20, 10>>, <<40000, 70000>> }

\* Sizes the window system reports to a driver, keys and key states.
DriverSizes == { <<160, 120>>, <<40000, 70000>> }
Keys == { "Escape", "Space" }
KeyStates == { "Pressed", "Released" }

\* The example programs.
MinimalWinit == "minimal-winit"
MinimalEgui == "minimal-egui"
ImguiWinit == "imgui-winit"
Android == "minimal-winit-android"
TinySkia == "tiny-skia-winit"
Variants == { MinimalWinit, MinimalEgui, ImguiWinit, Android, TinySkia }
\* The variants written as a winit ApplicationHandler.
CallbackVariants == { MinimalEgui, ImguiWinit, Android }

\* ------------------------------------------------------------------------
\* Integer conversions
\* ------------------------------------------------------------------------
\* `n as i16` of an unsigned or wider value: keep the low 16 bits, two's complement.
as_i16(n) == ((n + 32768) % 65536) - 32768

\* i16 addition as the release build computes it (wrapping).
add_i16(a, b) == as_i16(a + b)

\* ------------------------------------------------------------------------
\* World
\* ------------------------------------------------------------------------
\* World::new() of the variants with a compiled-in canvas.
World_new ==
    [box_x |-> 24, box_y |-> 16, velocity_x |-> 1, velocity_y |-> 1]

\* World::new(width, height) of imgui-winit.
World_new_sized(width, height) ==
    [width |-> as_i16(width), height |-> as_i16(height),
     box_x |-> 24, box_y |-> 16, velocity_x |-> 1, velocity_y |-> 1]

\* The wall test with a slip in it: reflecting one step late, and reflecting
\* on touching the wall.
toggle_velocity_late(pos, vel, bound) ==
    IF pos <= 0 \/ add_i16(pos, BOX_SIZE) > as_i16(bound) + 1 THEN as_i16(vel * (-1)) ELSE vel

toggle_velocity_touch(pos, vel, bound) ==
    IF pos <= 0 \/ add_i16(pos, BOX_SIZE) >= as_i16(bound) THEN as_i16(vel * (-1)) ELSE vel

\* One axis of the toggle update: the velocity after the wall test.
toggle_velocity(pos, vel, bound) ==
    IF pos <= 0 \/ add_i16(pos, BOX_SIZE) > as_i16(bound) THEN as_i16(vel * (-1)) ELSE vel

\* World::update that moves the box before it tests the walls.
update_toggle_move_first(w, WIDTH, HEIGHT) ==
    LET x == add_i16(w.box_x, w.velocity_x)
        y == add_i16(w.box_y, w.velocity_y)
    IN  [box_x |-> x, box_y |-> y,
         velocity_x |-> toggle_velocity(x, w.velocity_x, WIDTH),
         velocity_y |-> toggle_velocity(y, w.velocity_y, HEIGHT)]

\* World::update, toggle form (minimal-winit, minimal-egui, android).
update_toggle(w, WIDTH, HEIGHT) ==
    LET vx == toggle_velocity(w.box_x, w.velocity_x, WIDTH)
        vy == toggle_velocity(w.box_y, w.velocity_y, HEIGHT)
    IN  [box_x |-> add_i16(w.box_x, vx), box_y |-> add_i16(w.box_y, vy),
         velocity_x |-> vx, velocity_y |-> vy]

\* The two-flag wall tests with a slip: the toggle form on the stored bound,
\* negating the velocity past the far wall, reflecting on touching the wall, and decrementing the velocity
\* instead of assigning it.
two_flag_velocity_toggle(pos, vel, bound) ==
    IF pos <= 0 \/ add_i16(pos, BOX_SIZE) > bound THEN as_i16(vel * (-1)) ELSE vel

two_flag_velocity_negate(pos, vel, bound) ==
    LET v1 == IF pos <= 0 THEN 1 ELSE vel
    IN  IF add_i16(pos, BOX_SIZE) > bound THEN -v1 ELSE v1

two_flag_velocity_touch(pos, vel, bound) ==
    LET v1 == IF pos <= 0 THEN 1 ELSE vel
    IN  IF add_i16(pos, BOX_SIZE) >= bound THEN -1 ELSE v1

two_flag_velocity_accumulate(pos, vel, bound) ==
    LET v1 == IF pos <= 0 THEN 1 ELSE vel
    IN  IF add_i16(pos, BOX_SIZE) > bound THEN v1 - 1 ELSE v1

\* One axis of the two-flag update: the velocity after both wall tests.
two_flag_velocity(pos, vel, bound) ==
    LET v1 == IF pos <= 0 THEN 1 ELSE vel
    IN  IF add_i16(pos, BOX_SIZE) > bound THEN -1 ELSE v1

\* World::update, two-flag form (imgui-winit).
update_two_flag(w) ==
    LET vx == two_flag_velocity(w.box_x, w.velocity_x, w.width)
        vy == two_flag_velocity(w.box_y, w.velocity_y, w.height)
    IN  [w EXCEPT !.box_x = add_i16(w.box_x, vx), !.box_y = add_i16(w.box_y, vy),
                  !.velocity_x = vx, !.velocity_y = vy]

\* The range of the i16 fields of World.
I16_MIN == -32768
I16_MAX == 32767

in_i16(n) == I16_MIN <= n /\ n <= I16_MAX

\* Some value World::update computes from w does not fit an i16: one of
\* box + BOX_SIZE in the wall tests or box + velocity in the move.
update_overflows(w) ==
    LET vx == two_flag_velocity(w.box_x, w.velocity_x, w.width)
        vy == two_flag_velocity(w.box_y, w.velocity_y, w.height)
    IN  \/ ~in_i16(w.box_x + BOX_SIZE) \/ ~in_i16(w.box_y + BOX_SIZE)
        \/ ~in_i16(w.box_x + vx) \/ ~in_i16(w.box_y + vy)

\* World::resize (imgui-winit).
resize(w, width, height) ==
    [w EXCEPT !.width = as_i16(width), !.height = as_i16(height)]

\* `(i % width as usize) as i16`; a negative i16 width becomes a usize above every index.
pixel_x(i, width) == as_i16(IF width < 0 THEN i ELSE i % width)

\* `(i / width as usize) as i16`
pixel_y(i, width) == as_i16(IF width < 0 THEN 0 ELSE i \div width)

\* inside_the_box with an inclusive right edge.
inside_the_box_inclusive(w, x, y) ==
    /\ x >= w.box_x /\ x <= add_i16(w.box_x, BOX_SIZE)
    /\ y >= w.box_y /\ y < add_i16(w.box_y, BOX_SIZE)

\* inside_the_box of World::draw.
inside_the_box(w, x, y) ==
    /\ x >= w.box_x /\ x < add_i16(w.box_x, BOX_SIZE)
    /\ y >= w.box_y /\ y < add_i16(w.box_y, BOX_SIZE)

\* The rgba value World::draw writes to pixel i.
rgba(w, i, width) ==
    IF inside_the_box(w, pixel_x(i, width), pixel_y(i, width)) THEN ColourA ELSE ColourB

\* World::draw that writes the box only and leaves the other pixels alone.
draw_box_only(w, chunks, width) ==
    [k \in 1..Len(chunks) |->
        IF inside_the_box(w, pixel_x(k - 1, width), pixel_y(k - 1, width))
        THEN ColourA ELSE chunks[k]]

\* World::draw on the frame given as the sequence of its chunks_exact_mut(4)
\* chunks (chunk i+1 is pixel i): copy_from_slice overwrites all 4 bytes of
\* every chunk with the pixel's rgba.
draw(w, chunks, width) ==
    [k \in 1..Len(chunks) |-> rgba(w, k - 1, width)]

\* ------------------------------------------------------------------------
\* Specification of the World alone: a toggle World compiled for a canvas
\* and a two-flag World constructed for the same canvas, ticked together.
\* ------------------------------------------------------------------------
Min(a, b) == IF a < b THEN a ELSE b

\* The driver part of the state, at rest while the World is studied alone.
DriverAtRest ==
    /\ variant = None
    /\ state = "Uninitialized"
    /\ surface = << >>
    /\ redraw_requested = FALSE
    /\ frame = << >>
    /\ log = << >>
    /\ ready = None
    /\ input = None
    /\ hist = None

driverVars == <<variant, state, surface, redraw_requested, frame, log, ready, input, hist>>

WorldInit ==
    /\ DriverAtRest
    /\ \E c \in Canvases :
         /\ canvas = c
         /\ world = World_new
         /\ rworld = World_new_sized(c[1], c[2])
    /\ prev = World_new
    /\ ticks = 0
    /\ buf = << >>

\* One update() of both Worlds.
Tick ==
    /\ prev' = world
    /\ world' = update_toggle(world, canvas[1], canvas[2])
    /\ rworld' = update_two_flag(rworld)
    /\ ticks' = Min(ticks + 1, MaxTicks)
    /\ UNCHANGED <<canvas, buf, driverVars>>

WorldNext == Tick

SpecWorld == WorldInit /\ [][WorldNext]_vars

\* The same with resize() calls on the World that stores its bounds.
ResizeTick ==
    /\ ticks < MaxResizeTicks
    /\ Tick

WorldResize ==
    /\ \E s \in ResizeSizes : rworld' = resize(rworld, s[1], s[2])
    /\ UNCHANGED <<world, canvas, ticks, prev, buf, driverVars>>

ResizeNext == ResizeTick \/ WorldResize

SpecResize == WorldInit /\ [][ResizeNext]_vars

\* The World that stores its bounds, in the states the 640 x 480 variant
\* reaches with the box at (100, 100): box_x has period 1154 and is 100 at
\* updates 76 (moving right) and 1030 (moving left), box_y has period 834 and
\* is 100 at updates 84 (moving down) and 718 (moving up), and each pair of
\* these is met at some update.  From there resize() and update() calls in
\* any order; hist holds the last call, the World before it and, for an
\* update, the size of a resize() that came just before it.
ScenarioVelocities == { -1, 1 }

ScenarioInit ==
    /\ variant = None
    /\ state = "Running"
    /\ surface = << >> /\ redraw_requested = FALSE /\ frame = << >>
    /\ log = << >> /\ ready = None /\ input = None
    /\ canvas = <<WIDTH_gui, HEIGHT_gui>>
    /\ \E vx \in ScenarioVelocities, vy \in ScenarioVelocities :
         rworld = [World_new_sized(WIDTH_gui, HEIGHT_gui) EXCEPT
                      !.box_x = 100, !.box_y = 100,
                      !.velocity_x = vx, !.velocity_y = vy]
    /\ hist = [op |-> "none", before |-> << >>, size |-> << >>]
    /\ world = World_new
    /\ prev = World_new
    /\ ticks = 0
    /\ buf = << >>

scenarioFixed ==
    <<world, canvas, prev, buf, variant, state, surface, redraw_requested,
      frame, log, ready, input>>

ScenarioResize ==
    /\ \E s \in ResizeSizes :
         /\ rworld' = resize(rworld, s[1], s[2])
         /\ hist' = [op |-> "resize", before |-> <<rworld>>, size |-> <<s>>]
    /\ UNCHANGED <<ticks, scenarioFixed>>

ScenarioUpdate ==
    /\ ticks < MaxScenarioTicks
    /\ ticks' = ticks + 1
    /\ rworld' = update_two_flag(rworld)
    /\ hist' = [op |-> "update", before |-> <<rworld>>,
                size |-> IF hist.op = "resize" THEN hist.size ELSE << >>]
    /\ UNCHANGED scenarioFixed

ScenarioNext == ScenarioResize \/ ScenarioUpdate

SpecScenario == ScenarioInit /\ [][ScenarioNext]_vars

\* The World that stores its bounds under update() and resize() calls in any
\* order, update() being called again and again. hist holds whether the box
\* has been more than one step past a wall in x since it was last inside
\* (far), and whether it has come back inside from there (returned).
OvershootCanvases == { <<100, 90>> }

OvershootSizes == { <<100, 90>>, <<70, 70>>, <<64, 64>>, <<20, 10>> }

\* The box of w is within the stored width.
InsideX(w) == 0 <= w.box_x /\ w.box_x + BOX_SIZE <= w.width

\* The box of w is within the stored height.
InsideY(w) == 0 <= w.box_y /\ w.box_y + BOX_SIZE <= w.height

\* The box of w is more than one step past a wall in x.
FarOutsideX(w) == w.box_x < -1 \/ w.box_x + BOX_SIZE > w.width + 1

overshot(h, w) ==
    [far |-> ~InsideX(w) /\ (h.far \/ FarOutsideX(w)),
     returned |-> h.returned \/ (h.far /\ InsideX(w))]

OvershootInit ==
    /\ variant = None
    /\ state = "Running"
    /\ surface = << >> /\ redraw_requested = FALSE /\ frame = << >>
    /\ log = << >> /\ ready = None /\ input = None
    /\ \E c \in OvershootCanvases :
         /\ canvas = c
         /\ rworld = World_new_sized(c[1], c[2])
    /\ hist = [far |-> FALSE, returned |-> FALSE]
    /\ world = World_new
    /\ prev = World_new
    /\ ticks = 0
    /\ buf = << >>

OvershootUpdate ==
    /\ rworld' = update_two_flag(rworld)
    /\ hist' = overshot(hist, update_two_flag(rworld))
    /\ UNCHANGED <<ticks, scenarioFixed>>

OvershootResize ==
    /\ \E s \in OvershootSizes :
         /\ rworld' = resize(rworld, s[1], s[2])
         /\ hist' = overshot(hist, resize(rworld, s[1], s[2]))
    /\ UNCHANGED <<ticks, scenarioFixed>>

OvershootNext == OvershootUpdate \/ OvershootResize

SpecOvershoot ==
    /\ OvershootInit /\ [][OvershootNext]_vars
    /\ WF_vars(OvershootUpdate)

\* The World that stores its bounds on canvases up to the largest i16, with
\* update() as either build computes it: an i16 overflow panics in a debug
\* build and wraps in a release build.
WideCanvases == { <<65, 65>>, <<32766, 32766>>, <<32767, 65>>, <<65, 32767>> }

WideInit ==
    /\ variant = None
    /\ state = "Running"
    /\ surface = << >> /\ redraw_requested = FALSE /\ frame = << >>
    /\ log = << >> /\ ready = None /\ input = None /\ hist = None
    /\ \E c \in WideCanvases :
         /\ canvas = c
         /\ rworld = World_new_sized(c[1], c[2])
    /\ world = World_new
    /\ prev = World_new
    /\ ticks = 0
    /\ buf = << >>

WideTick ==
    /\ state = "Running"
    /\ ticks < MaxWideTicks
    /\ ticks' = ticks + 1
    /\ \/ /\ rworld' = update_two_flag(rworld)
          /\ state' = state
       \/ /\ update_overflows(rworld)
          /\ state' = "Panicked"
          /\ rworld' = rworld
    /\ UNCHANGED <<world, canvas, prev, buf, variant, surface, redraw_requested,
                   frame, log, ready, input, hist>>

WideNext == WideTick

SpecWide == WideInit /\ [][WideNext]_vars

\* ------------------------------------------------------------------------
\* Specification of draw(): a World is ticked and rasterised into a buffer
\* of width * height * 4 bytes with arbitrary previous contents.
\* ------------------------------------------------------------------------
DrawInit ==
    /\ DriverAtRest
    /\ \E c \in DrawCanvases, fill \in Fills :
         /\ canvas = c
         /\ world = World_new
         /\ rworld = World_new_sized(c[1], c[2])
         /\ buf = [k \in 1..(c[1] * c[2]) |-> <<fill, fill, fill, fill>>]
    /\ prev = World_new
    /\ ticks = 0

DrawTick ==
    /\ ticks < MaxDrawTicks
    /\ prev' = world
    /\ world' = update_toggle(world, canvas[1], canvas[2])
    /\ rworld' = update_two_flag(rworld)
    /\ ticks' = ticks + 1
    /\ UNCHANGED <<canvas, buf, driverVars>>

\* world.draw(frame) of a variant with a compiled-in canvas.
DrawFixed ==
    /\ buf' = draw(world, buf, canvas[1])
    /\ frame' = <<[box_x |-> world.box_x, box_y |-> world.box_y, width |-> canvas[1]]>>
    /\ UNCHANGED <<variant, state, world, canvas, rworld, ticks, prev, surface,
                   redraw_requested, log, ready, input, hist>>

\* world.draw(frame) of imgui-winit, which derives x and y from self.width.
DrawSized ==
    /\ buf' = draw(rworld, buf, rworld.width)
    /\ frame' = <<[box_x |-> rworld.box_x, box_y |-> rworld.box_y, width |-> rworld.width]>>
    /\ UNCHANGED <<variant, state, world, canvas, rworld, ticks, prev, surface,
                   redraw_requested, log, ready, input, hist>>

DrawNext == DrawTick \/ DrawFixed \/ DrawSized

SpecDraw == DrawInit /\ [][DrawNext]_vars

\* ------------------------------------------------------------------------
\* The frame-cycle drivers
\* ------------------------------------------------------------------------
\* Every handler runs to completion before the next event is taken, so each
\* handler is one action. The window system, the surface and the overlays
\* are outside the repository: their calls succeed or fail
\* nondeterministically, events arrive in any order while the driver is
\* Running, and no event is dispatched once event_loop.exit() was called or
\* the async loop was left ("Exited") or a handler panicked ("Panicked").
\* WIDTH and HEIGHT of a variant.
canvas_of(v) ==
    IF v \in { MinimalWinit, Android } THEN <<WIDTH_minimal, HEIGHT_minimal>>
    ELSE IF v = TinySkia THEN <<WIDTH_skia, HEIGHT_skia>>
    ELSE <<WIDTH_gui, HEIGHT_gui>>

\* The World a variant constructs. imgui-winit declares new(width, height);
\* its caller is taken to pass WIDTH and HEIGHT.
world_of(v) ==
    IF v = ImguiWinit THEN World_new_sized(WIDTH_gui, HEIGHT_gui)
    ELSE IF v = TinySkia THEN [drawing |-> 0]
    ELSE World_new

\* world.update() of a variant. tiny-skia-winit has no World: its
\* shape::draw(&mut drawing, elapsed) repaints the pixmap, kept here as the
\* number of the repaint.
update(v, w) ==
    IF v = ImguiWinit THEN update_two_flag(w)
    ELSE IF v = TinySkia THEN [drawing |-> w.drawing + 1]
    ELSE update_toggle(w, canvas_of(v)[1], canvas_of(v)[2])

\* What world.draw(pixels.frame_mut()) leaves in the frame: the rasterisation
\* of this box position with rows of this width. In tiny-skia-winit the
\* frame is a copy of the pixmap.
drawn(v, w) ==
    IF v = TinySkia THEN <<w>>
    ELSE <<[box_x |-> w.box_x, box_y |-> w.box_y,
            width |-> IF v = ImguiWinit THEN w.width ELSE canvas_of(v)[1]]>>

\* Length in bytes of the frame buffer frame_mut() hands out: the buffer
\* Pixels::new(WIDTH, HEIGHT, ..) allocates. resize_surface() leaves it, and
\* no variant calls resize_buffer().
frame_len(v) == 4 * canvas_of(v)[1] * canvas_of(v)[2]

\* Length in bytes of tiny-skia-winit's Pixmap::new(WIDTH, HEIGHT).
pixmap_len == 4 * WIDTH_skia * HEIGHT_skia

\* A Resized arm that passes the new size on to imgui-winit's World.
resizes_world_imgui(v) == v = ImguiWinit

\* Whether the Resized arm of a variant calls world.resize(): none does.
resizes_world(v) == FALSE

\* log_error(method_name, err)
log_error(l, method_name) == Append(l, method_name)

HistInit ==
    [event |-> None,            \* kind of the last handled event
     key |-> << >>,             \* <<key, state>> of the last keyboard event
     size |-> << >>,            \* <<size>> of the last resize event
     updated |-> 0,             \* update() calls made by the last handler
     since_present |-> 0,       \* update() calls since the last presented frame
     gap |-> -1,                \* update() calls between the last two presented frames
     presents |-> 0,            \* presentation calls made by the last handler
     presented |-> FALSE,       \* a frame has been presented
     present_err |-> FALSE,     \* a presentation call has returned an error
     present_after_err |-> FALSE, \* a presentation call was made after such an error
     resize_err |-> FALSE,      \* resize_surface has returned an error
     draw_after_resize_err |-> FALSE, \* a frame was drawn after such an error
     steps |-> << >>,           \* the calls of the last handler, in order
     shown |-> << >>,           \* frame contents the last presentation call submitted
     constructed |-> None,      \* where window and surface were constructed
     requested |-> FALSE]       \* the last handler called request_redraw()

DriverInit ==
    /\ variant \in Variants
    /\ state = "Uninitialized"
    /\ world = world_of(variant)
    /\ canvas = canvas_of(variant)
    /\ rworld = World_new_sized(canvas[1], canvas[2])
    /\ ticks = 0
    /\ prev = World_new
    /\ buf = << >>
    /\ surface = << >>
    /\ redraw_requested = FALSE
    /\ frame = << >>
    /\ log = << >>
    /\ ready = [s \in {"redraw", "timer", "input", "resize", "close"} |-> << >>]
    /\ input = [key_pressed_escape |-> FALSE, close_requested |-> FALSE,
                window_resized |-> << >>]
    /\ hist = HistInit

\* History of a handler that makes no update(), draw or presentation call.
quiet(h, ev) ==
    [h EXCEPT !.event = ev, !.key = << >>, !.size = << >>, !.updated = 0, !.presents = 0,
              !.steps = << >>, !.requested = FALSE]

\* History of a handler that made nupd update() calls, drew a frame, and made
\* presentation calls with these results, in this order.
framed(h, ev, nupd, results) ==
    LET failed == \E i \in 1..Len(results) : results[i] # "Ok"
        retried == \E i \in 1..Len(results) : \E j \in 1..Len(results) :
                       i < j /\ results[i] # "Ok"
    IN [h EXCEPT !.event = ev, !.key = << >>, !.size = << >>,
                 !.updated = nupd,
                 !.presents = Len(results),
                 !.gap = IF Len(results) = 0 THEN h.gap
                         ELSE IF h.presented THEN h.since_present + nupd ELSE -1,
                 !.since_present = IF Len(results) = 0 THEN h.since_present + nupd ELSE 0,
                 !.presented = h.presented \/ Len(results) > 0,
                 !.present_err = h.present_err \/ failed,
                 !.present_after_err = h.present_after_err \/ retried
                                         \/ (h.present_err /\ Len(results) > 0),
                 !.draw_after_resize_err = h.draw_after_resize_err \/ h.resize_err,
                 !.requested = FALSE]

\* The same for a handler that goes on to call window.request_redraw().
asked(h) == [h EXCEPT !.requested = TRUE]

quiet_asked(h, ev) == asked(quiet(h, ev))

framed_asked(h, ev, nupd, results) == asked(framed(h, ev, nupd, results))

\* A RedrawRequested arm that renders before it draws.
redraw_steps_present_first(v) ==
    IF v \in { MinimalWinit, TinySkia } THEN <<"present", "draw">>
    ELSE <<"update", "present", "draw">>

\* The calls of the redraw handler of a variant, in the order of its code:
\* "update" is world.update(), "draw" is world.draw(frame) (tiny-skia: the
\* copy of the pixmap into the frame), "overlay" is the overlay's prepare,
\* "present" is one render() or render_with() call.
redraw_steps(v) ==
    CASE v = MinimalWinit -> <<"draw", "present">>
      [] v = TinySkia -> <<"draw", "present">>
      [] v = Android -> <<"update", "draw", "present">>
      [] v = MinimalEgui -> <<"update", "draw", "overlay", "present">>
      [] v = ImguiWinit -> <<"update", "draw", "overlay", "present", "present">>

\* Position of the first occurrence of a call in a handler's steps (0: none).
RECURSIVE first_step(_, _, _)
first_step(steps, call, i) ==
    IF i > Len(steps) THEN 0
    ELSE IF steps[i] = call THEN i
    ELSE first_step(steps, call, i + 1)

\* History of a handler that made these calls, with the frame holding
\* `before` when the handler started and `after` once it had drawn: a
\* presentation call submits what the frame holds when it is made.
traced(h, steps, before, after) ==
    LET p == first_step(steps, "present", 1)
        d == first_step(steps, "draw", 1)
    IN [h EXCEPT !.steps = steps,
                 !.shown = IF p = 0 THEN h.shown
                           ELSE IF d # 0 /\ d < p THEN after ELSE before]

\* Where a variant constructs its window and surface, with all of them
\* doing so in main.
constructs_in_main(v) == "main"

\* Where a variant constructs its window and surface: tiny-skia-winit in
\* main, before the event loop runs; the others on the resumed signal.
constructs_in(v) == IF v = TinySkia THEN "main" ELSE "resumed"

\* window.request_redraw() that does nothing.
request_redraw_dropped(requested) == requested

\* window.request_redraw(): a redraw request is outstanding afterwards.
request_redraw(requested) == TRUE

worldVars == <<world, ticks>>
sideVars == <<variant, canvas, rworld, prev, buf>>

\* ---- the ApplicationHandler variants: minimal-egui, imgui-winit, android ----

\* A resumed() that builds the World again.
resumed_world_new(v, w) == world_of(v)

\* The World after resumed(): the handler builds the window, the surface and
\* the overlay and leaves the World, built in main, alone.
resumed_world(v, w) == w

\* App::resumed: create the window, the surface and (egui, imgui) the overlay.
\* Each unwrap() panics on failure.
Resumed ==
    /\ variant \in CallbackVariants
    /\ state \in {"Uninitialized", "Running"}
    /\ \E ok \in BOOLEAN, window_size \in DriverSizes \cup {canvas} :
         /\ hist' = [quiet(hist, "Resumed") EXCEPT
                        !.constructed = IF ok THEN constructs_in(variant) ELSE @]
         /\ IF ok
            THEN /\ state' = "Running"
                 /\ surface' = <<window_size>>
                 /\ frame' = << >>
            ELSE /\ state' = "Panicked"
                 /\ UNCHANGED <<surface, frame>>
    /\ world' = resumed_world(variant, world)
    /\ UNCHANGED <<ticks, sideVars, redraw_requested, log, ready, input>>

\* window_event(CloseRequested): event_loop.exit(), then request_redraw().
CloseRequested ==
    /\ variant \in CallbackVariants
    /\ state = "Running"
    /\ state' = "Exited"
    /\ redraw_requested' = request_redraw(redraw_requested)
    /\ hist' = quiet_asked(hist, "Close")
    /\ UNCHANGED <<worldVars, sideVars, surface, frame, log, ready, input>>

\* A keyboard arm in every ApplicationHandler variant.
handles_keyboard_everywhere(v) == TRUE

\* The variants whose window_event has a KeyboardInput arm.
handles_keyboard(v) == v \in { MinimalEgui, ImguiWinit }

\* window_event(KeyboardInput): exit on Escape pressed (egui, imgui); the
\* android variant has no such arm and takes `_ => {}`. Then request_redraw().
KeyboardInput ==
    /\ variant \in CallbackVariants
    /\ state = "Running"
    /\ \E k \in Keys, ks \in KeyStates :
         /\ state' = IF handles_keyboard(variant) /\ k = "Escape" /\ ks = "Pressed"
                     THEN "Exited" ELSE "Running"
         /\ hist' = [quiet_asked(hist, "Key") EXCEPT !.key = <<k, ks>>]
    /\ redraw_requested' = request_redraw(redraw_requested)
    /\ UNCHANGED <<worldVars, sideVars, surface, frame, log, ready, input>>

\* window_event(Resized(size)): resize_surface(size).ok() drops the result
\* (egui also resizes the overlay). Then request_redraw().
Resized ==
    /\ variant \in CallbackVariants
    /\ state = "Running"
    /\ \E size \in DriverSizes, ok \in BOOLEAN :
         /\ surface' = IF ok THEN <<size>> ELSE surface
         /\ hist' = [quiet_asked(hist, "Resize") EXCEPT !.size = <<size>>,
                                                  !.resize_err = hist.resize_err \/ ~ok]
         /\ world' = IF resizes_world(variant) THEN resize(world, size[1], size[2])
                      ELSE world
    /\ redraw_requested' = request_redraw(redraw_requested)
    /\ UNCHANGED <<state, ticks, sideVars, frame, log, ready, input>>

\* window_event of any other event (ScaleFactorChanged, CursorMoved, ...):
\* nothing, or the overlay's handle_event; then request_redraw().
OtherEvent ==
    /\ variant \in CallbackVariants
    /\ state = "Running"
    /\ redraw_requested' = request_redraw(redraw_requested)
    /\ hist' = quiet_asked(hist, "Other")
    /\ UNCHANGED <<state, worldVars, sideVars, surface, frame, log, ready, input>>

\* A RedrawRequested arm that omits world.update().
updates_on_redraw_none(v) == 0

\* Number of world.update() calls in the RedrawRequested arm.
updates_on_redraw(v) == 1

\* The World after the update() calls of the RedrawRequested arm.
RECURSIVE updated_n(_, _, _)
updated_n(v, w, n) == IF n = 0 THEN w ELSE updated_n(v, update(v, w), n - 1)

\* minimal-egui, window_event(RedrawRequested): update, draw, prepare,
\* render_with; on Err log and exit. Then request_redraw().
EguiRedraw ==
    /\ variant = MinimalEgui
    /\ state = "Running"
    /\ ticks < MaxDriverTicks
    /\ LET n == updates_on_redraw(variant)
           w == updated_n(variant, world, n)
       IN /\ world' = w
          /\ ticks' = ticks + n
          /\ frame' = drawn(variant, w)
          /\ \E render_result \in {"Ok", "Err"} :
               /\ hist' = traced(framed_asked(hist, "Redraw", n, <<render_result>>),
                                 redraw_steps(variant), frame, drawn(variant, w))
               /\ IF render_result # "Ok"
                  THEN log' = log_error(log, "pixels.render") /\ state' = "Exited"
                  ELSE UNCHANGED <<log, state>>
    /\ redraw_requested' = request_redraw(redraw_requested)
    /\ UNCHANGED <<sideVars, surface, ready, input>>

\* minimal-winit-android, window_event(RedrawRequested): update, draw,
\* render; on Err exit (the error is not logged). Then request_redraw().
AndroidRedraw ==
    /\ variant = Android
    /\ state = "Running"
    /\ ticks < MaxDriverTicks
    /\ LET n == updates_on_redraw(variant)
           w == updated_n(variant, world, n)
       IN /\ world' = w
          /\ ticks' = ticks + n
          /\ frame' = drawn(variant, w)
          /\ \E render_result \in {"Ok", "Err"} :
               /\ hist' = traced(framed_asked(hist, "Redraw", n, <<render_result>>),
                                 redraw_steps(variant), frame, drawn(variant, w))
               /\ state' = IF render_result # "Ok" THEN "Exited" ELSE state
    /\ redraw_requested' = request_redraw(redraw_requested)
    /\ UNCHANGED <<sideVars, surface, log, ready, input>>

\* imgui-winit, window_event(RedrawRequested): update, draw, prepare (panics
\* on failure), render_with whose result is bound to render_result and never
\* read, then render(); on Err of render() log and exit. Then request_redraw().
ImguiRedraw ==
    /\ variant = ImguiWinit
    /\ state = "Running"
    /\ ticks < MaxDriverTicks
    /\ LET n == updates_on_redraw(variant)
           w == updated_n(variant, world, n)
       IN /\ world' = w
          /\ ticks' = ticks + n
          /\ frame' = drawn(variant, w)
          /\ \E prepared \in BOOLEAN :
               IF ~prepared
               THEN /\ state' = "Panicked"
                    /\ hist' = traced(framed(hist, "Redraw", n, << >>),
                                      SubSeq(redraw_steps(variant), 1, 3),
                                      frame, drawn(variant, w))
                    /\ UNCHANGED <<log, redraw_requested>>
               ELSE \E render_result \in {"Ok", "Err", "OverlayErr"}, second \in {"Ok", "Err"} :
                    /\ hist' = traced(framed_asked(hist, "Redraw", n, <<render_result, second>>),
                                      redraw_steps(variant), frame, drawn(variant, w))
                    /\ IF second # "Ok"
                       THEN log' = log_error(log, "pixels.render") /\ state' = "Exited"
                       ELSE UNCHANGED <<log, state>>
                    /\ redraw_requested' = request_redraw(redraw_requested)
    /\ UNCHANGED <<sideVars, surface, ready, input>>

\* ---- the async variant: minimal-winit ----

Streams == <<"redraw", "timer", "input", "resize", "close">>

\* Start of the async block: wait for resumed, build the window (unwrap
\* panics), create the surface (on Err log and exit), create the World.
AsyncStart ==
    /\ variant = MinimalWinit
    /\ state = "Uninitialized"
    /\ \E outcome \in {"Ok", "WindowErr", "PixelsErr"}, window_size \in DriverSizes \cup {canvas} :
         /\ state' = CASE outcome = "Ok" -> "Running"
                       [] outcome = "WindowErr" -> "Panicked"
                       [] OTHER -> "Exited"
         /\ surface' = IF outcome = "Ok" THEN <<window_size>> ELSE surface
         /\ log' = IF outcome = "PixelsErr" THEN log_error(log, "pixels.render") ELSE log
         /\ hist' = [quiet(hist, "Resumed") EXCEPT
                        !.constructed = IF outcome = "Ok" THEN constructs_in(variant) ELSE @]
    /\ world' = World_new
    /\ UNCHANGED <<ticks, sideVars, redraw_requested, frame, ready, input>>

\* The events the window system and the interval timer can produce.
AsyncEvents ==
    {<<"redraw", "Redraw">>, <<"timer", "Timer">>, <<"close", "Close">>}
      \cup {<<"input", <<k, ks>>>> : k \in Keys, ks \in KeyStates}
      \cup {<<"resize", size>> : size \in DriverSizes}

\* An event becomes ready in its stream (a redraw event answers the
\* outstanding request_redraw(), or is sent by the window system unasked).
Arrive ==
    /\ variant = MinimalWinit
    /\ state = "Running"
    /\ \E e \in AsyncEvents :
         /\ ready[e[1]] = << >>
         /\ e[1] = "timer" => ticks < MaxDriverTicks
         /\ ready' = [ready EXCEPT ![e[1]] = <<e[2]>>]
         /\ redraw_requested' = IF e[1] = "redraw" THEN FALSE ELSE redraw_requested
    /\ UNCHANGED <<state, worldVars, sideVars, surface, frame, log, input, hist>>

RECURSIVE first_ready(_, _)
first_ready(r, i) ==
    IF i > Len(Streams) THEN None
    ELSE IF r[Streams[i]] # << >> THEN Streams[i]
    ELSE first_ready(r, i + 1)

\* events.next() of redraw.or(timer).or(input).or(resize).or(close): `or`
\* yields from its left stream whenever that one is ready.
next_stream(r) == first_ready(r, 1)

\* The loop takes the next event of this stream.
Take(stream) ==
    /\ variant = MinimalWinit
    /\ state = "Running"
    /\ next_stream(ready) = stream
    /\ ready' = [ready EXCEPT ![stream] = << >>]

\* Events::Timer => update, request_redraw
AsyncTimer ==
    /\ Take("timer")
    /\ world' = update(variant, world)
    /\ ticks' = ticks + 1
    /\ redraw_requested' = request_redraw(redraw_requested)
    /\ hist' = [quiet_asked(hist, "Timer") EXCEPT !.updated = 1,
                                           !.since_present = hist.since_present + 1]
    /\ UNCHANGED <<state, sideVars, surface, frame, log, input>>

\* Events::Redraw => draw, render; on Err log and break
AsyncRedraw ==
    /\ Take("redraw")
    /\ frame' = drawn(variant, world)
    /\ \E render_result \in {"Ok", "Err"} :
         /\ hist' = traced(framed(hist, "Redraw", 0, <<render_result>>),
                           redraw_steps(variant), frame, drawn(variant, world))
         /\ IF render_result # "Ok"
            THEN log' = log_error(log, "pixels.render") /\ state' = "Exited"
            ELSE UNCHANGED <<log, state>>
    /\ UNCHANGED <<worldVars, sideVars, surface, redraw_requested, input>>

\* The input stream maps Escape pressed to Events::Close (=> break) and every
\* other keyboard event to Events::Continue (=> ()).
AsyncInput ==
    /\ Take("input")
    /\ LET key == ready["input"][1]
       IN /\ state' = IF key = <<"Escape", "Pressed">> THEN "Exited" ELSE "Running"
          /\ hist' = [quiet(hist, "Key") EXCEPT !.key = key]
    /\ UNCHANGED <<worldVars, sideVars, surface, redraw_requested, frame, log, input>>

\* Events::Resize(size) => resize_surface; on Err log and break
AsyncResize ==
    /\ Take("resize")
    /\ LET size == ready["resize"][1]
       IN \E ok \in BOOLEAN :
            /\ hist' = [quiet(hist, "Resize") EXCEPT !.size = <<size>>,
                                                     !.resize_err = hist.resize_err \/ ~ok]
            /\ IF ok
               THEN surface' = <<size>> /\ UNCHANGED <<log, state>>
               ELSE /\ log' = log_error(log, "pixels.resize_surface")
                    /\ state' = "Exited"
                    /\ UNCHANGED surface
    /\ UNCHANGED <<worldVars, sideVars, redraw_requested, frame, input>>

\* Events::Close => break; then window_target.exit()
AsyncClose ==
    /\ Take("close")
    /\ state' = "Exited"
    /\ hist' = quiet(hist, "Close")
    /\ UNCHANGED <<worldVars, sideVars, surface, redraw_requested, frame, log, input>>

\* ---- tiny-skia-winit ----

InputInit == [key_pressed_escape |-> FALSE, close_requested |-> FALSE, window_resized |-> << >>]

\* main before event_loop.run: window (unwrap panics), surface (`?` returns
\* the error), pixmap.
SkiaMain ==
    /\ variant = TinySkia
    /\ state = "Uninitialized"
    /\ \E outcome \in {"Ok", "WindowErr", "PixelsErr"}, window_size \in DriverSizes \cup {canvas} :
         /\ state' = CASE outcome = "Ok" -> "Running"
                       [] outcome = "WindowErr" -> "Panicked"
                       [] OTHER -> "Exited"
         /\ surface' = IF outcome = "Ok" THEN <<window_size>> ELSE surface
         /\ hist' = [quiet(hist, "Main") EXCEPT
                        !.constructed = IF outcome = "Ok" THEN constructs_in(variant) ELSE @]
    /\ UNCHANGED <<worldVars, sideVars, redraw_requested, frame, log, ready, input>>

\* The closure on a window event other than RedrawRequested: input.update
\* records it and returns false, so the closure does nothing more.
SkiaWindowEvent ==
    /\ variant = TinySkia
    /\ state = "Running"
    /\ \/ input' = [input EXCEPT !.close_requested = TRUE]
       \/ \E k \in Keys, ks \in KeyStates :
            input' = [input EXCEPT !.key_pressed_escape =
                          input.key_pressed_escape \/ (k = "Escape" /\ ks = "Pressed")]
       \/ \E size \in DriverSizes : input' = [input EXCEPT !.window_resized = <<size>>]
    /\ hist' = quiet(hist, "Input")
    /\ UNCHANGED <<state, worldVars, sideVars, surface, redraw_requested, frame, log, ready>>

\* The closure at the end of a step (input.update returns true): exit on
\* Escape pressed or close requested; resize_surface on a resize, on Err log
\* and exit; repaint the pixmap and request_redraw(). The next step starts
\* with a cleared helper.
SkiaStep ==
    /\ variant = TinySkia
    /\ state = "Running"
    /\ ticks < MaxDriverTicks
    /\ input' = InputInit
    /\ IF input.key_pressed_escape \/ input.close_requested
       THEN /\ state' = "Exited"
            /\ hist' = IF input.close_requested THEN quiet(hist, "Close")
                       ELSE [quiet(hist, "Key") EXCEPT !.key = <<"Escape", "Pressed">>]
            /\ UNCHANGED <<worldVars, surface, redraw_requested, log>>
       ELSE \E ok \in BOOLEAN :
            IF input.window_resized # << >> /\ ~ok
            THEN /\ log' = log_error(log, "pixels.resize_surface")
                 /\ state' = "Exited"
                 /\ hist' = [quiet(hist, "Resize") EXCEPT !.size = input.window_resized,
                                                          !.resize_err = TRUE]
                 /\ UNCHANGED <<worldVars, surface, redraw_requested>>
            ELSE /\ surface' = IF input.window_resized # << >> THEN input.window_resized
                               ELSE surface
                 /\ world' = update(variant, world)
                 /\ ticks' = ticks + 1
                 /\ redraw_requested' = request_redraw(redraw_requested)
                 /\ hist' = IF input.window_resized # << >>
                            THEN [quiet_asked(hist, "Resize") EXCEPT !.size = input.window_resized]
                            ELSE quiet_asked(hist, "Step")
                 /\ UNCHANGED <<state, log>>
    /\ UNCHANGED <<sideVars, frame, ready>>

\* The closure on RedrawRequested: copy the pixmap into the frame, render;
\* on Err log and exit.
SkiaRedraw ==
    /\ variant = TinySkia
    /\ state = "Running"
    /\ frame' = drawn(variant, world)
    /\ \E render_result \in {"Ok", "Err"} :
         /\ hist' = traced(framed(hist, "Redraw", 0, <<render_result>>),
                           redraw_steps(variant), frame, drawn(variant, world))
         /\ IF render_result # "Ok"
            THEN log' = log_error(log, "pixels.render") /\ state' = "Exited"
            ELSE UNCHANGED <<log, state>>
    /\ redraw_requested' = FALSE
    /\ UNCHANGED <<worldVars, sideVars, surface, ready, input>>

DriverNext ==
    \/ Resumed \/ CloseRequested \/ KeyboardInput \/ Resized \/ OtherEvent
    \/ EguiRedraw \/ AndroidRedraw \/ ImguiRedraw
    \/ AsyncStart \/ Arrive \/ AsyncTimer \/ AsyncRedraw \/ AsyncInput
    \/ AsyncResize \/ AsyncClose
    \/ SkiaMain \/ SkiaWindowEvent \/ SkiaStep \/ SkiaRedraw

Spec == DriverInit /\ [][DriverNext]_vars

\* ========================================================================
\* Properties of the drivers
\* ========================================================================
Logged(method_name) == \E i \in 1..Len(log) : log[i] = method_name

\* The variants that own a World.
WorldVariants == Variants \ { TinySkia }

C2_PresentErrorIsFatal ==
    hist.present_err =>
        /\ state = "Exited"
        /\ Logged("pixels.render")
        /\ ~hist.present_after_err

EscapePressed == <<"Escape", "Pressed">>

\* C3 as stated: in every variant a handled close request leaves the driver
\* Exited, and a handled keyboard event leaves it Exited exactly when it is
\* Escape with state Pressed.
C3_ExitTriggers ==
    /\ hist.event = "Close" => state = "Exited"
    /\ hist.event = "Key" => (state = "Exited" <=> hist.key = EscapePressed)

\* C3 amended: in every variant a handled close request leaves the driver
\* Exited; in every variant but minimal-winit-android a handled keyboard
\* event leaves it Exited exactly when it is Escape with state Pressed; the
\* android variant has no keyboard arm and stays Running on every keyboard event.
C3_ExitTriggersKeyboardArm ==
    /\ hist.event = "Close" => state = "Exited"
    /\ (hist.event = "Key" /\ variant # Android) =>
           (state = "Exited" <=> hist.key = EscapePressed)
    /\ (hist.event = "Key" /\ variant = Android) => state = "Running"

\* Escape pressed has ended a running variant with a keyboard arm.
C3_Witness ==
    /\ variant = MinimalEgui /\ hist.event = "Key" /\ hist.key = EscapePressed
    /\ state = "Exited" /\ hist.presented

\* C9: after a handled resize that leaves the driver Running the surface has
\* been told the new size, and a World that stores width and height holds
\* the new size.
C9_ResizeInformsSurfaceAndWorld ==
    (hist.event = "Resize" /\ state = "Running") =>
        /\ surface = hist.size \/ hist.resize_err
        /\ variant = ImguiWinit =>
             (world.width = hist.size[1][1] /\ world.height = hist.size[1][2])

\* C10: once resize_surface has returned an error, the error has been
\* logged, the driver is Exited, and no frame was drawn after it.
C10_ResizeErrorIsFatal ==
    hist.resize_err =>
        /\ state = "Exited"
        /\ Logged("pixels.resize_surface")
        /\ ~hist.draw_after_resize_err

\* ========================================================================
\* Properties of the World
\* ========================================================================
\* The initial box (24,16)+BOX_SIZE overlaps no wall of the canvas by more than one step.
InitialBoxFits ==
    /\ World_new.box_x + BOX_SIZE <= canvas[1] + 1
    /\ World_new.box_y + BOX_SIZE <= canvas[2] + 1

OverlapAtMostOne(w, W, H) ==
    /\ -1 <= w.box_x /\ w.box_x + BOX_SIZE <= W + 1
    /\ -1 <= w.box_y /\ w.box_y + BOX_SIZE <= H + 1

OnMinimalCanvas == canvas = <<WIDTH_minimal, HEIGHT_minimal>>

\* C5 as stated: on the 320x240 canvas box_x touches the right wall after
\* 232 updates and the 233rd update flips the sign of velocity_x.
C5_FlipOn233 ==
    OnMinimalCanvas =>
        /\ ticks = 232 => world.box_x + BOX_SIZE = WIDTH_minimal
        /\ ticks = 233 => world.velocity_x = -prev.velocity_x

\* C5 amended: on the 320x240 canvas box_x touches the right wall
\* (box_x = 256) after 232 updates; the 233rd update keeps velocity_x = +1
\* and moves the box one step into the wall (box_x = 257); the 234th update
\* flips velocity_x to -1.
C5_FlipOn234 ==
    OnMinimalCanvas =>
        /\ ticks = 232 => (world.box_x = 256 /\ world.box_x + BOX_SIZE = WIDTH_minimal
                           /\ world.velocity_x = 1)
        /\ ticks = 233 => (world.box_x = 257 /\ world.velocity_x = 1 /\ prev.velocity_x = 1)
        /\ ticks = 234 => (world.box_x = 256 /\ world.velocity_x = -1 /\ prev.velocity_x = 1)

C5_Witness == OnMinimalCanvas /\ ticks = 234 /\ world.velocity_x = -1

SameWorld(a, b) ==
    /\ a.box_x = b.box_x /\ a.box_y = b.box_y
    /\ a.velocity_x = b.velocity_x /\ a.velocity_y = b.velocity_y

UnitVelocity(w) == w.velocity_x \in {-1, 1} /\ w.velocity_y \in {-1, 1}

\* C7: after any sequence of update() and resize() calls each velocity
\* component of either World is -1 or +1.
C7_UnitVelocity == UnitVelocity(world) /\ UnitVelocity(rworld)

\* A resize has put the right wall behind the box and update() has reflected it.
C7_Witness ==
    /\ ticks > 0
    /\ rworld.width # as_i16(canvas[1])
    /\ rworld.velocity_x = -1 /\ world.velocity_x = 1

\* The 4 bytes of pixel i of the buffer.
PixelOf(chunks, i) == chunks[i + 1]

\* Pixel (x, y) lies in the square [box_x, box_x+SIZE) x [box_y, box_y+SIZE).
InSquare(f, x, y) ==
    /\ f.box_x <= x /\ x < f.box_x + BOX_SIZE
    /\ f.box_y <= y /\ y < f.box_y + BOX_SIZE

\* C8: after draw() on a buffer of width*height*4 bytes every pixel i, with
\* x = i % width and y = i / width, holds colour A exactly when (x, y) is in
\* the square [box_x, box_x+SIZE) x [box_y, box_y+SIZE) and colour B
\* otherwise, so no byte keeps its previous value; a box that overlaps the
\* right edge is clipped.
C8_DrawFillsEveryPixel ==
    frame # << >> =>
        LET f == frame[1] IN
        /\ Len(buf) * 4 = canvas[1] * canvas[2] * 4
        /\ \A i \in 0..(canvas[1] * canvas[2] - 1) :
             PixelOf(buf, i) = IF InSquare(f, i % f.width, i \div f.width)
                               THEN ColourA ELSE ColourB

\* A box past the right edge has been drawn: the last column of the first box
\* row is colour A and the first column of the next row, where a wrapped box
\* would continue, is colour B.
C8_Witness ==
    /\ frame # << >>
    /\ frame[1].box_x + BOX_SIZE > frame[1].width
    /\ frame[1].box_x > 0
    /\ PixelOf(buf, frame[1].box_y * frame[1].width + frame[1].width - 1) = ColourA
    /\ PixelOf(buf, (frame[1].box_y + 1) * frame[1].width) = ColourB

\* Order of the calls of a redraw: update, draw, overlay, present.
step_rank(call) ==
    CASE call = "update" -> 1
      [] call = "draw" -> 2
      [] call = "overlay" -> 3
      [] call = "present" -> 4

\* C11: for every redraw handled while Running that reaches presentation,
\* the calls occur in the order update, draw, overlay, present, draw runs
\* once before the present, and exactly one presentation call is made.
C11_OnePresentPerRedraw ==
    (hist.event = "Redraw" /\ first_step(hist.steps, "present", 1) # 0) =>
        /\ first_step(hist.steps, "draw", 1) # 0
        /\ \A i \in 1..(Len(hist.steps) - 1) :
             step_rank(hist.steps[i]) < step_rank(hist.steps[i + 1])

\* Nothing has run on the World or the frame while Uninitialized, and a
\* handler that uses the window or surface runs only once they exist.
NothingBeforeConstruction ==
    /\ state = "Uninitialized" =>
         /\ surface = << >> /\ frame = << >>
         /\ ticks = 0 /\ hist.updated = 0
         /\ hist.steps = << >> /\ ~hist.presented
    /\ hist.event \notin {"None", "Resumed", "Main"} => surface # << >>

\* C12 as stated: in every variant the window and surface are constructed at
\* the resumed/start signal and not earlier, nothing is updated, drawn or
\* presented while Uninitialized, and handlers run only after construction.
C12_ConstructedAtResumed ==
    /\ surface # << >> => hist.constructed = "resumed"
    /\ NothingBeforeConstruction

\* C12: the window and surface are constructed at the resumed/start signal
\* in every variant but tiny-skia-winit, which constructs them in main
\* before the event loop runs; nothing is updated, drawn or presented while
\* Uninitialized, and handlers run only after construction.
C12_ConstructedBeforeUse ==
    /\ surface # << >> =>
         hist.constructed = IF variant = TinySkia THEN "main" ELSE "resumed"
    /\ NothingBeforeConstruction

\* tiny-skia-winit has presented a frame on the surface it built in main.
C12_Witness ==
    /\ variant = TinySkia /\ hist.constructed = "main"
    /\ hist.event = "Redraw" /\ hist.presented

C20_RedrawIsAtomic ==
    [][(variant = MinimalWinit /\ hist' # hist /\ hist'.event = "Redraw") =>
          /\ hist'.shown = drawn(variant, world)
          /\ frame' = hist'.shown
          /\ world' = world /\ ticks' = ticks
          /\ surface' = surface
          /\ ready' = [ready EXCEPT !["redraw"] = << >>]
          /\ (state' # state => hist'.present_err)]_vars

\* minimal-winit has presented the current World after two updates while a
\* timer event and a close request were waiting.
C20_Witness ==
    /\ variant = MinimalWinit /\ hist.event = "Redraw" /\ ticks >= 2
    /\ hist.shown = drawn(variant, world)
    /\ ready["timer"] # << >> /\ ready["close"] # << >>

\* The drivers with the scheduling the async loop gives: an arm whose event
\* stays the one events.next() yields is eventually run.  Nothing makes the
\* window system or the timer stop producing events.
SpecFair ==
    /\ Spec
    /\ WF_vars(AsyncTimer) /\ WF_vars(AsyncRedraw) /\ WF_vars(AsyncInput)
    /\ WF_vars(AsyncResize) /\ WF_vars(AsyncClose)

\* A close request or an Escape press is ready in its stream.
ExitEventReady ==
    ready["close"] # << >> \/ ready["input"] = <<EscapePressed>>

\* C13: in minimal-winit no stream is preferred, so a close request or an
\* Escape press that has arrived is eventually consumed and the loop leaves
\* Running, even while redraw events keep arriving.
C13_ExitEventEventuallyConsumed ==
    (variant = MinimalWinit /\ state = "Running" /\ ExitEventReady)
        ~> (state # "Running")

\* No update() from World::new() on computes a value outside the i16 range.
NoOverflow == state # "Panicked" /\ ~update_overflows(rworld)

\* C15 as stated: for every canvas width and height from SIZE+1 to 32767, no
\* value computed by update() from World::new() on leaves the i16 range.
C15_NoOverflowUpTo32767 ==
    (/\ BOX_SIZE + 1 <= canvas[1] /\ canvas[1] <= I16_MAX
     /\ BOX_SIZE + 1 <= canvas[2] /\ canvas[2] <= I16_MAX) => NoOverflow

\* With widths and heights below 32767 every value fits.
NoOverflowUpTo32766 ==
    (/\ BOX_SIZE + 1 <= canvas[1] /\ canvas[1] <= I16_MAX - 1
     /\ BOX_SIZE + 1 <= canvas[2] /\ canvas[2] <= I16_MAX - 1) => NoOverflow

\* The last call was update(), right after resize(160, 120) with the box at
\* (100, 100).
UpdatedAfterScenarioResize ==
    /\ hist.op = "update" /\ hist.size = <<(<<160, 120>>)>>
    /\ hist.before[1].box_x = 100 /\ hist.before[1].box_y = 100

\* resize() has left the box where it was.
ResizeKeepsBox ==
    hist.op = "resize" =>
        /\ rworld.box_x = hist.before[1].box_x
        /\ rworld.box_y = hist.before[1].box_y

\* C16 as stated: with the box at (100,100) and any velocity, resize(160,120)
\* does not move the box and the next update() flips the sign of velocity_x.
C16_VelocityFlips ==
    /\ ResizeKeepsBox
    /\ UpdatedAfterScenarioResize =>
         rworld.velocity_x = -hist.before[1].velocity_x

\* C16: with the box at (100,100) and any velocity, resize(160,120) does not
\* move the box and the next update() tests against the new bounds: it sets
\* velocity_x and velocity_y to -1, whatever they were, and moves the box to
\* (99, 99).
C16_VelocityForcedLeft ==
    /\ ResizeKeepsBox
    /\ UpdatedAfterScenarioResize =>
         /\ rworld.velocity_x = -1 /\ rworld.velocity_y = -1
         /\ rworld.box_x = 99 /\ rworld.box_y = 99
         /\ rworld.width = 160 /\ rworld.height = 120

\* The update after resize(160,120) found the box already moving left.
C16_Witness ==
    /\ UpdatedAfterScenarioResize
    /\ hist.before[1].velocity_x = -1
    /\ rworld.velocity_x = -1

\* C17: after resize(width, height) the stored width and height equal the
\* arguments and box_x, box_y, velocity_x and velocity_y are unchanged, for
\* every width and height the window system can report.
C17_ResizeStoresArguments ==
    hist.op = "resize" =>
        /\ rworld.width = hist.size[1][1]
        /\ rworld.height = hist.size[1][2]
        /\ rworld.box_x = hist.before[1].box_x
        /\ rworld.box_y = hist.before[1].box_y
        /\ rworld.velocity_x = hist.before[1].velocity_x
        /\ rworld.velocity_y = hist.before[1].velocity_y

\* The box of w lies strictly inside a width x height canvas.
StrictlyInside(w, width, height) ==
    /\ 0 < w.box_x /\ w.box_x + BOX_SIZE <= width
    /\ 0 < w.box_y /\ w.box_y + BOX_SIZE <= height

\* w after a move by its velocity, the velocity unchanged.
Moved(w) ==
    [w EXCEPT !.box_x = w.box_x + w.velocity_x, !.box_y = w.box_y + w.velocity_y]

CompiledCanvases == { <<WIDTH_minimal, HEIGHT_minimal>>, <<WIDTH_gui, HEIGHT_gui>> }

\* C18: update() moves the box by exactly its velocity; when the box is
\* strictly inside the canvas the velocity is unchanged and the position
\* becomes (box_x + velocity_x, box_y + velocity_y), in the toggle form and
\* in the two-flag form; World::new() followed by one update() gives
\* position (25,17) and velocity (1,1) on the canvases of the variants.
C18_UpdateMovesByVelocity ==
    [][/\ world'.box_x = world.box_x + world'.velocity_x
       /\ world'.box_y = world.box_y + world'.velocity_y
       /\ rworld'.box_x = rworld.box_x + rworld'.velocity_x
       /\ rworld'.box_y = rworld.box_y + rworld'.velocity_y
       /\ StrictlyInside(world, canvas[1], canvas[2]) => world' = Moved(world)
       /\ StrictlyInside(rworld, rworld.width, rworld.height) => rworld' = Moved(rworld)
       /\ (ticks = 0 /\ canvas \in CompiledCanvases) =>
            /\ world' = [box_x |-> 25, box_y |-> 17, velocity_x |-> 1, velocity_y |-> 1]
            /\ rworld'.box_x = 25 /\ rworld'.box_y = 17
            /\ rworld'.velocity_x = 1 /\ rworld'.velocity_y = 1]_vars

\* On the 320 x 240 canvas the box has bounced off the right wall and an
\* update() has then moved it left from a position strictly inside.
C18_Witness ==
    /\ canvas = <<WIDTH_minimal, HEIGHT_minimal>>
    /\ StrictlyInside(prev, canvas[1], canvas[2])
    /\ prev.velocity_x = -1
    /\ world = Moved(prev)

\* A buffer of n pixels with every byte equal to fill.
Blank(n, fill) == [k \in 1..n |-> <<fill, fill, fill, fill>>]

\* C19: draw() leaves box position, velocity and bounds unchanged, and its
\* result is the one it gives on a buffer of the same size with any other
\* previous contents: drawing the same World state into two buffers of the
\* same size yields identical buffers.
C19_DrawIsPure ==
    [][(frame' # frame \/ buf' # buf) =>
          /\ world' = world /\ rworld' = rworld /\ canvas' = canvas
          /\ Len(buf') = Len(buf)
          /\ \A fill \in Fills :
               buf' = draw(frame'[1], Blank(Len(buf), fill), frame'[1].width)]_vars

\* The World has been drawn after two updates, over a buffer that started
\* all 255 or over an earlier drawing.
C19_Witness ==
    /\ frame # << >> /\ ticks >= 2
    /\ frame[1].box_x = world.box_x /\ frame[1].box_y = world.box_y
    /\ world.box_x # 24
    /\ buf # Blank(Len(buf), 255)

\* The height that goes with the width World::draw uses: the stored height
\* in imgui-winit, the compiled-in HEIGHT elsewhere.
draw_height(v, w) == IF v = ImguiWinit THEN w.height ELSE canvas_of(v)[2]

C22_EventuallyBackInside ==
    /\ (~InsideX(rworld)) ~> InsideX(rworld)
    /\ (~InsideY(rworld)) ~> InsideY(rworld)

\* C22: with a stored width of at least SIZE, a box past a wall in x by any
\* number of steps is eventually brought back within 0 <= box_x and
\* box_x + SIZE <= width by repeated update() calls, unless a resize() stores
\* a width below SIZE first; likewise for y and the stored height.
C22_EventuallyBackWhenBoxFits ==
    /\ (~InsideX(rworld) /\ rworld.width >= BOX_SIZE)
          ~> (InsideX(rworld) \/ rworld.width < BOX_SIZE)
    /\ (~InsideY(rworld) /\ rworld.height >= BOX_SIZE)
          ~> (InsideY(rworld) \/ rworld.height < BOX_SIZE)

\* The box has come back inside a width of at least SIZE after being more
\* than one step past a wall.
C22_Witness ==
    /\ hist.returned /\ InsideX(rworld)
    /\ rworld.width >= BOX_SIZE /\ rworld.velocity_x = -1

\* C23: once an exit trigger has been taken and the driver is Exited, the
\* driver makes no further redraw request (nor update, draw or present): the
\* handler that took the trigger has not called request_redraw().
C23_NoRequestOnceExited ==
    state = "Exited" => ~hist.requested

\* The event whose handler calls world.update(): Timer in minimal-winit,
\* RedrawRequested in the ApplicationHandler variants.
TickEvent(v, ev) == IF v = MinimalWinit THEN ev = "Timer" ELSE ev = "Redraw"

\* Two Worlds with the same box position and velocity.
SameMotion(w1, w2) ==
    /\ w1.box_x = w2.box_x /\ w1.box_y = w2.box_y
    /\ w1.velocity_x = w2.velocity_x /\ w1.velocity_y = w2.velocity_y

\* A step leaves the World of a variant equal to World::new() updated once
\* per tick so far, and changes neither the tick count nor the box position
\* or velocity unless it handles the tick event.
TickOnlyStep ==
    /\ SameMotion(world', updated_n(variant, world_of(variant), ticks'))
    /\ TickEvent(variant, hist'.event) \/ (ticks' = ticks /\ SameMotion(world', world))

\* C24: only the frame tick mutates the simulation: a step that handles a
\* close, keyboard, resize or other non-tick event, or a repeated resumed
\* signal, leaves the box position and velocity unchanged, and the World
\* after n ticks is World::new() updated n times whatever was interleaved.
C24_OnlyTickMutates == [][(variant \in WorldVariants) => TickOnlyStep]_vars

\* minimal-egui has handled a repeated resumed signal after two ticks, and
\* the box is where two updates put it.
C24_Witness ==
    /\ variant = MinimalEgui /\ ticks = 2
    /\ hist.event = "Resumed" /\ hist.presented
    /\ world.box_x = 26 /\ world.box_y = 18

====
